---- MODULE Spec2Model ----
(***************************************************************************)
(* telegram-mcp: a Model Context Protocol server with one tool,            *)
(* send_message, that posts a text to a fixed Telegram chat.               *)
(*                                                                         *)
(* The model follows src/src/index.ts, the TypeScript source of the        *)
(* server: configuration is read from the environment at module load, a   *)
(* tool call is validated with a Zod schema, and the message is sent by    *)
(* running a curl command line through execSync (/bin/sh -c).              *)
(*                                                                         *)
(* A JavaScript string is a sequence of UTF-16 code units; a message is    *)
(* modelled as the sequence of its code units, each a one-character        *)
(* string, with "HS" and "LS" standing for the high and low surrogate of   *)
(* one character outside the Basic Multilingual Plane.                     *)
(***************************************************************************)
EXTENDS Integers, Sequences, FiniteSets, TLC

VARIABLES
    env,            \* process.env: the two variables the server reads
    phase,          \* "loading" | "serving" | "exited"
    BOT_TOKEN,      \* module constant, set once at load
    CHAT_ID,        \* module constant, set once at load
    exitCode,       \* process exit code, NoExit while the process runs
    stderr,         \* diagnostics written at startup
    call,           \* the tool call being served or last served, or NoCall
    invocations,    \* number of completed invocations
    validSends,     \* number of send_message invocations that passed validation
    outboundCalls,  \* number of HTTP requests curl has issued
    schemaInput,    \* an input handed to SendMessageSchema on its own
    schemaResult,   \* what SendMessageSchema.parse made of it, or NotParsed
    calls           \* the overlapping tool calls, by request id

vars == <<env, phase, BOT_TOKEN, CHAT_ID, exitCode, stderr, call,
          invocations, validSends, outboundCalls, schemaInput, schemaResult,
          calls>>

(***************************************************************************)
(* Bounds of the model.                                                    *)
(***************************************************************************)
MaxInvocations == 2
MaxLen == 2
MaxCalls == 2

(***************************************************************************)
(* Program constants.                                                      *)
(***************************************************************************)
MinMessageLength == 1
MaxMessageLength == 4096
TELEGRAM_API_BASE == "https://api.telegram.org"

(***************************************************************************)
(* JavaScript values.                                                      *)
(***************************************************************************)
Undefined == [t |-> "undefined"]
Str(v) == [t |-> "string", v |-> v]
Num(v) == [t |-> "number", v |-> v]
IsString(x) == x.t = "string"

NoExit == -1
NoCall == [stage |-> "none"]
NotParsed == [parsed |-> FALSE]
CallIds == 1..MaxCalls
NoCalls == [id \in CallIds |-> NoCall]

(***************************************************************************)
(* Startup: module top level of index.ts.                                  *)
(***************************************************************************)
EnvValues(v) == {Undefined, Str(""), Str(v)}

\* process.env.X || "" : an absent or empty variable yields "".
EnvOrEmpty(x) == IF IsString(x) /\ x.v # "" THEN x.v ELSE ""

\* A startup check that exits only when both credentials are missing.
ConfigMissingBoth(token, chat) == token = "" /\ chat = ""

\* if (!BOT_TOKEN || !CHAT_ID)
ConfigMissing(token, chat) == token = "" \/ chat = ""

ConfigDiagnostic ==
    "Error: TELEGRAM_BOT_TOKEN and TELEGRAM_CHAT_ID environment variables are required"

\* console.error(`[INIT] X loaded: ${X ? "yes" : "no"}`)
LoadedLog(name, value) ==
    "[INIT] " \o name \o " loaded: " \o (IF value # "" THEN "yes" ELSE "no")

Init ==
    /\ env \in [TELEGRAM_BOT_TOKEN : EnvValues("tok"),
                TELEGRAM_CHAT_ID : EnvValues("123")]
    /\ phase = "loading"
    /\ BOT_TOKEN = ""
    /\ CHAT_ID = ""
    /\ exitCode = NoExit
    /\ stderr = <<>>
    /\ call = NoCall
    /\ invocations = 0
    /\ validSends = 0
    /\ outboundCalls = 0
    /\ schemaInput = [message |-> Undefined, parse_mode |-> Undefined]
    /\ schemaResult = NotParsed
    /\ calls = NoCalls

\* Module load through main(): read the environment, exit(1) on a missing
\* credential, otherwise register the handlers and connect the transport.
Startup ==
    /\ phase = "loading"
    /\ LET token == EnvOrEmpty(env.TELEGRAM_BOT_TOKEN)
           chat  == EnvOrEmpty(env.TELEGRAM_CHAT_ID)
       IN /\ BOT_TOKEN' = token
          /\ CHAT_ID' = chat
          /\ IF ConfigMissing(token, chat)
             THEN /\ stderr' = <<LoadedLog("BOT_TOKEN", token),
                                 LoadedLog("CHAT_ID", chat), ConfigDiagnostic>>
                  /\ exitCode' = 1
                  /\ phase' = "exited"
             ELSE /\ stderr' = <<LoadedLog("BOT_TOKEN", token),
                                 LoadedLog("CHAT_ID", chat)>>
                  /\ exitCode' = exitCode
                  /\ phase' = "serving"
    /\ UNCHANGED <<env, call, invocations, validSends, outboundCalls,
                   schemaInput, schemaResult, calls>>

(***************************************************************************)
(* Input validation: SendMessageSchema (zod 3).                            *)
(* z.string().min/.max compare the string's length property, the number    *)
(* of UTF-16 code units.                                                   *)
(***************************************************************************)
ParseModes == {"HTML", "Markdown", "MarkdownV2"}

EnumExpected == "Expected 'HTML' | 'Markdown' | 'MarkdownV2', received "

\* A schema whose upper bound is off by one: a message of 4096 is rejected.
MessageIssuesOffByOne(m) ==
    IF m.t = "undefined" THEN <<"Required">>
    ELSE IF ~IsString(m) THEN <<"Expected string, received " \o m.t>>
    ELSE (IF Len(m.v) < MinMessageLength
          THEN <<"Message cannot be empty">> ELSE <<>>)
         \o
         (IF Len(m.v) >= MaxMessageLength
          THEN <<"Message exceeds Telegram's 4096 character limit">>
          ELSE <<>>)

\* message: z.string().min(1, ...).max(4096, ...)
MessageIssues(m) ==
    IF m.t = "undefined" THEN <<"Required">>
    ELSE IF ~IsString(m) THEN <<"Expected string, received " \o m.t>>
    ELSE (IF Len(m.v) < MinMessageLength
          THEN <<"Message cannot be empty">> ELSE <<>>)
         \o
         (IF Len(m.v) > MaxMessageLength
          THEN <<"Message exceeds Telegram's 4096 character limit">>
          ELSE <<>>)

\* parse_mode: z.enum(["HTML", "Markdown", "MarkdownV2"]).optional()
ParseModeIssues(p) ==
    IF p.t = "undefined" THEN <<>>
    ELSE IF ~IsString(p) THEN <<EnumExpected \o p.t>>
    ELSE IF p.v \in ParseModes THEN <<>>
    ELSE <<"Invalid enum value. " \o EnumExpected \o "'" \o p.v \o "'">>

\* SendMessageSchema.parse(toolInput): the issues of the keys in schema
\* order; on success the parsed data.
SendMessageSchemaParse(toolInput) ==
    LET issues == MessageIssues(toolInput.message)
                  \o ParseModeIssues(toolInput.parse_mode)
    IN [success |-> issues = <<>>,
        issues  |-> issues,
        data    |-> toolInput]

\* Array.prototype.join
RECURSIVE Join(_, _)
Join(strs, sep) ==
    IF strs = <<>> THEN ""
    ELSE IF Len(strs) = 1 THEN strs[1]
    ELSE strs[1] \o sep \o Join(Tail(strs), sep)

\* `Invalid input: ${error.errors.map((e) => e.message).join(", ")}`
ZodErrorMessage(issues) == "Invalid input: " \o Join(issues, ", ")

(***************************************************************************)
(* The curl command line of sendTelegramMessage.  A command line is a      *)
(* sequence of tokens: the characters the shell treats specially are one   *)
(* token each, a run of other characters of a literal is one token.        *)
(***************************************************************************)
Q   == "\""
BS  == "\\"
SP  == " "
AMP == "&"

\* message.replace(/"/g, '\\"')
RECURSIVE EscapeQuotes(_, _, _)
EscapeQuotes(s, lo, hi) ==
    IF lo > hi THEN <<>>
    ELSE IF lo = hi THEN (IF s[lo] = Q THEN <<BS, Q>> ELSE <<s[lo]>>)
    ELSE LET mid == (lo + hi) \div 2
         IN EscapeQuotes(s, lo, mid) \o EscapeQuotes(s, mid + 1, hi)

\* `${TELEGRAM_API_BASE}/bot${BOT_TOKEN}/sendMessage`
SendMessageUrl(token) == TELEGRAM_API_BASE \o "/bot" \o token \o "/sendMessage"

\* curlCmd as built by sendTelegramMessage
CurlCmd(token, chat, message, parse_mode) ==
    <<"curl", SP, "-s", SP, "-X", SP, "POST", SP, Q, SendMessageUrl(token), Q>>
    \o <<SP, "-d", SP, Q, "chat_id=", chat, Q>>
    \o <<SP, "-d", SP, Q, "text=">> \o EscapeQuotes(message, 1, Len(message)) \o <<Q>>
    \o (IF parse_mode.t # "undefined"
        THEN <<SP, "-d", SP, Q, "parse_mode=", parse_mode.v, Q>>
        ELSE <<>>)

(***************************************************************************)
(* execSync(curlCmd): /bin/sh -c parses the command line into a list of    *)
(* commands, each a sequence of words; a word is a sequence of tokens.     *)
(***************************************************************************)
ShellSpecial == {SP, Q, BS, AMP}

ShellSyntaxError == [err |-> TRUE, cmds |-> <<>>]

\* Index of the first special token at or after i, Len(cmd) + 1 if none.
NextSpecial(cmd, i) ==
    IF \E k \in i..Len(cmd) : cmd[k] \in ShellSpecial
    THEN CHOOSE k \in i..Len(cmd) :
            /\ cmd[k] \in ShellSpecial
            /\ \A j \in i..(k - 1) : cmd[j] \notin ShellSpecial
    ELSE Len(cmd) + 1

ShellStart ==
    [mode |-> "UQ", inWord |-> FALSE, word |-> <<>>, argv |-> <<>>, cmds |-> <<>>]

AddToWord(st, toks) == [st EXCEPT !.word = @ \o toks, !.inWord = TRUE]

EndWord(st) ==
    IF st.inWord
    THEN [st EXCEPT !.argv = Append(@, st.word), !.word = <<>>, !.inWord = FALSE]
    ELSE st

EndCommand(st, sep) ==
    [st EXCEPT !.cmds = Append(@, [argv |-> st.argv, sep |-> sep]), !.argv = <<>>]

RECURSIVE ShellScan(_, _, _)
ShellScan(cmd, i, st) ==
    IF i > Len(cmd) THEN
        IF st.mode = "DQ" THEN ShellSyntaxError   \* unterminated quoted string
        ELSE LET s == EndWord(st)
             IN IF s.argv # <<>>
                THEN [err |-> FALSE, cmds |-> EndCommand(s, "end").cmds]
                ELSE IF s.cmds # <<>> /\ s.cmds[Len(s.cmds)].sep = "&&"
                THEN ShellSyntaxError
                ELSE [err |-> FALSE, cmds |-> s.cmds]
    ELSE IF cmd[i] \notin ShellSpecial THEN
        LET j == NextSpecial(cmd, i)
        IN ShellScan(cmd, j, AddToWord(st, SubSeq(cmd, i, j - 1)))
    ELSE IF st.mode = "DQ" THEN
        \* inside double quotes: a backslash quotes only " and \ (and $, `)
        IF cmd[i] = Q THEN ShellScan(cmd, i + 1, [st EXCEPT !.mode = "UQ"])
        ELSE IF cmd[i] = BS /\ i < Len(cmd) /\ cmd[i + 1] \in {Q, BS}
        THEN ShellScan(cmd, i + 2, AddToWord(st, <<cmd[i + 1]>>))
        ELSE ShellScan(cmd, i + 1, AddToWord(st, <<cmd[i]>>))
    ELSE
        \* unquoted
        IF cmd[i] = SP THEN ShellScan(cmd, i + 1, EndWord(st))
        ELSE IF cmd[i] = Q
        THEN ShellScan(cmd, i + 1, [AddToWord(st, <<>>) EXCEPT !.mode = "DQ"])
        ELSE IF cmd[i] = BS
        THEN IF i < Len(cmd)
             THEN ShellScan(cmd, i + 2, AddToWord(st, <<cmd[i + 1]>>))
             ELSE ShellScan(cmd, i + 1, AddToWord(st, <<BS>>))
        ELSE \* cmd[i] = AMP: `&` backgrounds the command, `&&` chains it
             LET s == EndWord(st)
             IN IF s.argv = <<>> THEN ShellSyntaxError
                ELSE IF i < Len(cmd) /\ cmd[i + 1] = AMP
                THEN ShellScan(cmd, i + 2, EndCommand(s, "&&"))
                ELSE ShellScan(cmd, i + 1, EndCommand(s, "&"))

ShellParse(cmd) == ShellScan(cmd, 1, ShellStart)

(***************************************************************************)
(* curl -s -X POST <url> -d <data> ... : the -d values are joined with &   *)
(* into one application/x-www-form-urlencoded body.                        *)
(***************************************************************************)
RECURSIVE CurlArgs(_, _, _)
CurlArgs(argv, i, acc) ==
    IF i > Len(argv) THEN acc
    ELSE IF argv[i] = <<"-s">> THEN CurlArgs(argv, i + 1, acc)
    ELSE IF argv[i] = <<"-X">> THEN
        IF i = Len(argv) THEN [acc EXCEPT !.err = TRUE]
        ELSE CurlArgs(argv, i + 2, [acc EXCEPT !.method = argv[i + 1]])
    ELSE IF argv[i] = <<"-d">> THEN
        IF i = Len(argv) THEN [acc EXCEPT !.err = TRUE]
        ELSE CurlArgs(argv, i + 2,
                      [acc EXCEPT !.body = IF acc.hasData
                                           THEN @ \o <<AMP>> \o argv[i + 1]
                                           ELSE argv[i + 1],
                                  !.hasData = TRUE])
    ELSE CurlArgs(argv, i + 1, [acc EXCEPT !.url = argv[i]])

CurlRequest(argv) ==
    CurlArgs(argv, 2, [err |-> FALSE, method |-> <<"GET">>, url |-> <<>>,
                       hasData |-> FALSE, body |-> <<>>])

(***************************************************************************)
(* The remote: decoding of the form body into fields.                      *)
(***************************************************************************)
\* Positions that start a field: 1 and every position after an &.
FieldStarts(body) ==
    {1} \cup {k + 1 : k \in {j \in 1..Len(body) : body[j] = AMP}}

FieldEnd(body, start) ==
    IF \E k \in start..Len(body) : body[k] = AMP
    THEN (CHOOSE k \in start..Len(body) :
            /\ body[k] = AMP
            /\ \A j \in start..(k - 1) : body[j] # AMP) - 1
    ELSE Len(body)

HasField(body, key) ==
    \E s \in FieldStarts(body) : s <= Len(body) /\ body[s] = key \o "="

\* Value of the first field named key, as the remote decodes it.
FieldValue(body, key) ==
    LET starts == {s \in FieldStarts(body) : s <= Len(body) /\ body[s] = key \o "="}
        first  == CHOOSE s \in starts : \A o \in starts : s <= o
    IN SubSeq(body, first + 1, FieldEnd(body, first))

\* The request as the remote sees it.
ReceivedRequest(req) ==
    [url        |-> req.url,
     method     |-> req.method,
     chat_id    |-> IF HasField(req.body, "chat_id")
                    THEN Str(FieldValue(req.body, "chat_id")) ELSE Undefined,
     text       |-> IF HasField(req.body, "text")
                    THEN Str(FieldValue(req.body, "text")) ELSE Undefined,
     parse_mode |-> IF HasField(req.body, "parse_mode")
                    THEN Str(FieldValue(req.body, "parse_mode")) ELSE Undefined]

(***************************************************************************)
(* Outcomes of one HTTP exchange with api.telegram.org.                    *)
(***************************************************************************)
NoResult == [t |-> "undefined"]
Result(id) == [t |-> "object", message_id |-> id]

JsonResponse(status, ok, description, result) ==
    [kind |-> "json", status |-> status, ok |-> ok,
     description |-> description, result |-> result]

HtmlResponse(status) ==
    [kind |-> "html", status |-> status, ok |-> FALSE,
     description |-> Undefined, result |-> NoResult]

ConnectionFailure ==
    [kind |-> "connect_fail", status |-> 0, ok |-> FALSE,
     description |-> Undefined, result |-> NoResult]

NoResponse ==
    [kind |-> "none", status |-> 0, ok |-> FALSE,
     description |-> Undefined, result |-> NoResult]

RemoteOutcomes ==
    { JsonResponse(200, TRUE, Undefined, Result(Num(42))),
      JsonResponse(200, TRUE, Undefined, Result(Num(7))),
      JsonResponse(200, TRUE, Undefined, NoResult),
      JsonResponse(400, FALSE, Str("Bad Request: chat not found"), NoResult),
      JsonResponse(500, FALSE, Undefined, NoResult),
      HtmlResponse(502),
      ConnectionFailure }

(***************************************************************************)
(* Running the parsed command list.                                        *)
(***************************************************************************)
\* One command: curl issues one request and prints the response body
\* whatever the HTTP status (-s, no -f); any other command is not found.
RunCommand(argv, remote) ==
    IF argv[1] = <<"curl">> THEN
        LET req == CurlRequest(argv)
        IN IF req.err \/ req.url = <<>>
           THEN [status |-> 2, out |-> <<>>, reqs |-> <<>>]
           ELSE IF remote.kind = "connect_fail"
           THEN [status |-> 7, out |-> <<>>, reqs |-> <<ReceivedRequest(req)>>]
           ELSE [status |-> 0, out |-> <<remote>>, reqs |-> <<ReceivedRequest(req)>>]
    ELSE [status |-> 127, out |-> <<>>, reqs |-> <<>>]

RECURSIVE RunList(_, _, _, _)
RunList(cmds, i, remote, acc) ==
    IF i > Len(cmds) THEN acc
    ELSE IF i > 1 /\ cmds[i - 1].sep = "&&" /\ acc.status # 0
    THEN RunList(cmds, i + 1, remote, acc)
    ELSE LET r == RunCommand(cmds[i].argv, remote)
         IN RunList(cmds, i + 1, remote,
                    [status |-> IF cmds[i].sep = "&" THEN 0 ELSE r.status,
                     out    |-> acc.out \o r.out,
                     reqs   |-> acc.reqs \o r.reqs])

\* execSync(curlCmd, ...): exit status of the shell, its stdout, and the
\* requests made on the way.
ExecSync(cmd, remote) ==
    LET p == ShellParse(cmd)
    IN IF p.err THEN [status |-> 2, out |-> <<>>, reqs |-> <<>>]
       ELSE RunList(p.cmds, 1, remote, [status |-> 0, out |-> <<>>, reqs |-> <<>>])

ExecErrorMessage == "Command failed: curl -s -X POST ..."
JsonEndMessage == "Unexpected end of JSON input"
JsonTokenMessage == "Unexpected token < in JSON at position 0"
ResultTypeErrorMessage ==
    "Cannot read properties of undefined (reading 'message_id')"

(***************************************************************************)
(* sendTelegramMessage                                                     *)
(***************************************************************************)
Threw(message, reqs) == [threw |-> TRUE, value |-> message, reqs |-> reqs]
Returned(value, reqs) == [threw |-> FALSE, value |-> value, reqs |-> reqs]

\* `${x}` of a number or of undefined
Template(x) == IF x.t = "number" THEN ToString(x.v) ELSE "undefined"

\* (responseData.description as string) || "Unknown error"
ErrorDesc(description) ==
    IF IsString(description) /\ description.v # ""
    THEN description.v ELSE "Unknown error"

ApiErrorMessage(description) == "Telegram API error: " \o ErrorDesc(description)

SuccessText(result) ==
    "Message sent successfully to Telegram. Message ID: "
        \o Template(result.message_id)

\* if (!responseData.ok)
ResponseRejected(responseData) == ~responseData.ok

\* The try block after execSync returned: JSON.parse and interpretation.
InterpretResponse(out, reqs) ==
    IF out = <<>> THEN Threw(JsonEndMessage, reqs)
    ELSE IF Len(out) # 1 \/ out[1].kind # "json" THEN Threw(JsonTokenMessage, reqs)
    ELSE IF ResponseRejected(out[1])
    THEN Threw(ApiErrorMessage(out[1].description), reqs)
    ELSE IF out[1].result.t = "undefined" THEN Threw(ResultTypeErrorMessage, reqs)
    ELSE Returned(SuccessText(out[1].result), reqs)

\* Every fault in the try block is an Error, which the catch block rethrows
\* unchanged.
sendTelegramMessage(token, chat, message, parse_mode, remote) ==
    LET ex == ExecSync(CurlCmd(token, chat, message, parse_mode), remote)
    IN IF ex.status # 0 THEN Threw(ExecErrorMessage, ex.reqs)
       ELSE InterpretResponse(ex.out, ex.reqs)

(***************************************************************************)
(* processToolCall and the CallToolRequestSchema handler                   *)
(***************************************************************************)
TextContent(text) == [type |-> "text", text |-> text]

Replied(text, validated, reqs) ==
    [escaped |-> FALSE, content |-> <<TextContent(text)>>,
     validated |-> validated, reqs |-> reqs]

Escaped(validated, reqs) ==
    [escaped |-> TRUE, content |-> <<>>, validated |-> validated, reqs |-> reqs]

ZodError(issues) == [zod |-> TRUE, message |-> "", issues |-> issues]
PlainError(message) == [zod |-> FALSE, message |-> message, issues |-> <<>>]

\* A catch block that handles validation errors only and rethrows the rest.
CatchToolErrorRethrow(error, validated, reqs) ==
    IF error.zod
    THEN Replied("Error: " \o ZodErrorMessage(error.issues), validated, reqs)
    ELSE Escaped(validated, reqs)

\* The catch block of processToolCall: whatever was thrown becomes a text.
CatchToolError(error, validated, reqs) ==
    LET errorMessage == IF error.zod THEN ZodErrorMessage(error.issues)
                        ELSE error.message
    IN Replied("Error: " \o errorMessage, validated, reqs)

\* An unknown tool reported with the prefix of the error replies.
UnknownToolTextPrefixed(toolName) == "Error: Unknown tool: " \o toolName

\* `Unknown tool: ${toolName}`
UnknownToolText(toolName) == "Unknown tool: " \o toolName

processToolCall(toolName, toolInput, token, chat, remote) ==
    IF toolName = "send_message" THEN
        LET validInput == SendMessageSchemaParse(toolInput)
        IN IF ~validInput.success
           THEN CatchToolError(ZodError(validInput.issues), FALSE, <<>>)
           ELSE LET result == sendTelegramMessage(token, chat,
                                  validInput.data.message.v,
                                  validInput.data.parse_mode, remote)
                IN IF result.threw
                   THEN CatchToolError(PlainError(result.value), TRUE, result.reqs)
                   ELSE Replied(result.value, TRUE, result.reqs)
    ELSE Replied(UnknownToolText(toolName), FALSE, <<>>)

\* (request.params.arguments as Record<string, unknown>) || {}
ToolInput(arguments) ==
    IF arguments.t = "undefined"
    THEN [message |-> Undefined, parse_mode |-> Undefined]
    ELSE arguments.v

(***************************************************************************)
(* Inputs of the model.                                                    *)
(***************************************************************************)
Alphabet == {"a", Q, BS, AMP}

Fill(c, n) == [i \in 1..n |-> c]

\* n characters outside the BMP: n surrogate pairs, 2n code units.
AstralFill(n) == [i \in 1..(2 * n) |-> IF i % 2 = 1 THEN "HS" ELSE "LS"]

ShortMessages == UNION {[1..n -> Alphabet] : n \in 0..MaxLen}

\* Messages around the length limit, in BMP and in astral characters.
LongMessages ==
    { Fill("a", MaxMessageLength - 1), Fill("a", MaxMessageLength),
      Fill("a", MaxMessageLength + 1),
      AstralFill(MaxMessageLength \div 2), AstralFill(MaxMessageLength \div 2 + 1),
      AstralFill(MaxMessageLength) }

Values(messages) == {Undefined, Num(5)} \cup {Str(m) : m \in messages}

\* A message that closes the quoted text argument and ends the command.
QuoteBreakingMessages == { <<BS, Q, AMP, BS>> }

MessageValues ==
    Values(ShortMessages \cup {AstralFill(1)} \cup QuoteBreakingMessages)

SchemaMessageValues == Values(ShortMessages \cup {AstralFill(1)} \cup LongMessages)

ParseModeValues ==
    {Undefined, Str("HTML"), Str("Markdown"), Str("MarkdownV2"), Str("Bogus")}

Object(v) == [t |-> "object", v |-> v]

ArgumentValues ==
    {Undefined} \cup
    {Object([message |-> m, parse_mode |-> p]) :
        m \in MessageValues, p \in ParseModeValues}

ToolNames == {"send_message", "delete_message"}

(***************************************************************************)
(* Actions                                                                 *)
(***************************************************************************)
\* The transport delivers a tools/call request to the connected server.
Receive(name, arguments) ==
    /\ phase = "serving"
    /\ call.stage # "received"
    /\ invocations < MaxInvocations
    /\ call' = [stage |-> "received", name |-> name, arguments |-> arguments]
    /\ UNCHANGED <<env, phase, BOT_TOKEN, CHAT_ID, exitCode, stderr,
                   invocations, validSends, outboundCalls,
                   schemaInput, schemaResult, calls>>

\* The CallToolRequestSchema handler, from the request to its reply.
CallTool(remote) ==
    /\ phase = "serving"
    /\ call.stage = "received"
    /\ LET r == processToolCall(call.name, ToolInput(call.arguments),
                                BOT_TOKEN, CHAT_ID, remote)
       IN /\ call' = [stage     |-> "replied",
                      name      |-> call.name,
                      arguments |-> call.arguments,
                      escaped   |-> r.escaped,
                      content   |-> r.content,
                      validated |-> r.validated,
                      requests  |-> r.reqs,
                      response  |-> IF r.reqs = <<>> THEN NoResponse ELSE remote]
          /\ invocations' = invocations + 1
          /\ validSends' = validSends + (IF r.validated THEN 1 ELSE 0)
          /\ outboundCalls' = outboundCalls + Len(r.reqs)
    /\ UNCHANGED <<env, phase, BOT_TOKEN, CHAT_ID, exitCode, stderr,
                   schemaInput, schemaResult, calls>>

\* SendMessageSchema.parse applied to an input on its own.
Validate ==
    /\ schemaResult = NotParsed
    /\ schemaResult' = [parsed |-> TRUE, v |-> SendMessageSchemaParse(schemaInput)]
    /\ UNCHANGED <<env, phase, BOT_TOKEN, CHAT_ID, exitCode, stderr, call,
                   invocations, validSends, outboundCalls, schemaInput, calls>>

Next ==
    \/ Startup
    \/ \E name \in ToolNames, arguments \in ArgumentValues : Receive(name, arguments)
    \/ \E remote \in RemoteOutcomes : CallTool(remote)

Spec == Init /\ [][Next]_vars
(***************************************************************************)
(* Validation on its own: the schema applied to inputs that include        *)
(* messages around the length limit.                                       *)
(***************************************************************************)
InitSchema ==
    /\ env = [TELEGRAM_BOT_TOKEN |-> Str("tok"), TELEGRAM_CHAT_ID |-> Str("123")]
    /\ phase = "loading"
    /\ BOT_TOKEN = ""
    /\ CHAT_ID = ""
    /\ exitCode = NoExit
    /\ stderr = <<>>
    /\ call = NoCall
    /\ invocations = 0
    /\ validSends = 0
    /\ outboundCalls = 0
    /\ schemaInput \in [message : SchemaMessageValues, parse_mode : ParseModeValues]
    /\ schemaResult = NotParsed
    /\ calls = NoCalls

NextSchema == Validate

SpecSchema == InitSchema /\ [][NextSchema]_vars

(***************************************************************************)
(* Overlapping invocations.  The handler is an async function: it runs     *)
(* processToolCall, whose body (execSync included) is synchronous, up to   *)
(* its await, and returns the content after the awaited promise resolves.  *)
(* Between these two steps, and before the first, the event loop may take  *)
(* up any other request the transport has delivered.                       *)
(***************************************************************************)
OverlapMessages == { <<>>, <<"a">>, <<BS>> }

OverlapArgumentValues ==
    {Undefined} \cup
    {Object([message |-> Str(m), parse_mode |-> Undefined]) : m \in OverlapMessages}

OverlapRemoteOutcomes ==
    { JsonResponse(200, TRUE, Undefined, Result(Num(42))),
      JsonResponse(400, FALSE, Str("Bad Request: chat not found"), NoResult),
      ConnectionFailure }

InFlight(cs) == {j \in CallIds : cs[j].stage \in {"received", "awaiting"}}

\* The transport delivers the request with this id.
ReceiveCall(id, name, arguments) ==
    /\ phase = "serving"
    /\ calls[id].stage = "none"
    /\ calls' = [calls EXCEPT ![id] =
                    [stage |-> "received", name |-> name, arguments |-> arguments,
                     overlapped |-> InFlight(calls) # {}]]
    /\ UNCHANGED <<env, phase, BOT_TOKEN, CHAT_ID, exitCode, stderr, call,
                   invocations, validSends, outboundCalls,
                   schemaInput, schemaResult>>

\* The handler starts: processToolCall runs to its end and the handler
\* suspends on `await processToolCall(...)`.
RunCall(id, remote) ==
    /\ phase = "serving"
    /\ calls[id].stage = "received"
    /\ LET r == processToolCall(calls[id].name, ToolInput(calls[id].arguments),
                                BOT_TOKEN, CHAT_ID, remote)
       IN calls' = [calls EXCEPT ![id] =
                      [stage      |-> "awaiting",
                       name       |-> calls[id].name,
                       arguments  |-> calls[id].arguments,
                       overlapped |-> calls[id].overlapped,
                       result     |-> [escaped |-> r.escaped, content |-> r.content],
                       requests   |-> r.reqs,
                       response   |-> IF r.reqs = <<>> THEN NoResponse ELSE remote]]
    /\ UNCHANGED <<env, phase, BOT_TOKEN, CHAT_ID, exitCode, stderr, call,
                   invocations, validSends, outboundCalls,
                   schemaInput, schemaResult>>

\* A handler that keeps the awaited result in a variable shared by all
\* calls: it returns what the call started last has stored there.
AwaitedResultShared(cs, id) ==
    LET started == {j \in CallIds : cs[j].stage \in {"awaiting", "returned"}}
        latest  == CHOOSE j \in started : \A k \in started : k <= j
    IN cs[latest].result

\* const result = await processToolCall(...): the handler's own local.
AwaitedResult(cs, id) == cs[id].result

\* The handler resumes and returns { content: [result] }.
ReturnCall(id) ==
    /\ phase = "serving"
    /\ calls[id].stage = "awaiting"
    /\ calls' = [calls EXCEPT ![id] =
                    [stage      |-> "returned",
                     name       |-> calls[id].name,
                     arguments  |-> calls[id].arguments,
                     overlapped |-> calls[id].overlapped,
                     result     |-> calls[id].result,
                     requests   |-> calls[id].requests,
                     response   |-> calls[id].response,
                     reply      |-> AwaitedResult(calls, id)]]
    /\ UNCHANGED <<env, phase, BOT_TOKEN, CHAT_ID, exitCode, stderr, call,
                   invocations, validSends, outboundCalls,
                   schemaInput, schemaResult>>

NextOverlap ==
    \/ Startup
    \/ \E id \in CallIds, name \in ToolNames, arguments \in OverlapArgumentValues :
          ReceiveCall(id, name, arguments)
    \/ \E id \in CallIds, remote \in OverlapRemoteOutcomes : RunCall(id, remote)
    \/ \E id \in CallIds : ReturnCall(id)

SpecOverlap == Init /\ [][NextOverlap]_vars

(***************************************************************************)
(* Properties                                                              *)
(***************************************************************************)
ReplyText == call.content[1].text

SendReplied == call.stage = "replied" /\ call.name = "send_message"

CallInput == ToolInput(call.arguments)

\* C1: every invocation, whatever the tool name, the arguments and the
\* outcome of the remote call, ends in a reply holding exactly one text
\* content item; no failure escapes the handler.
C1_SingleTextReply ==
    call.stage = "replied" =>
        /\ ~call.escaped
        /\ Len(call.content) = 1
        /\ call.content[1].type = "text"

\* C1 witness: a send whose remote call failed to connect has been replied to.
C1_Witness ==
    /\ SendReplied
    /\ call.response.kind = "connect_fail"
    /\ Len(call.content) = 1

EnvAbsentOrEmpty(x) == x.t = "undefined" \/ x.v = ""

\* C2: with TELEGRAM_BOT_TOKEN or TELEGRAM_CHAT_ID absent or empty the
\* process writes the diagnostic and exits with a non-zero code without
\* ever receiving an invocation; whenever an invocation is received or
\* served, both the bot token and the chat id are non-empty.
C2_StartupContract ==
    /\ (phase # "loading" /\ (\/ EnvAbsentOrEmpty(env.TELEGRAM_BOT_TOKEN)
                               \/ EnvAbsentOrEmpty(env.TELEGRAM_CHAT_ID)))
          => /\ phase = "exited"
             /\ exitCode # NoExit /\ exitCode # 0
             /\ \E i \in 1..Len(stderr) : stderr[i] = ConfigDiagnostic
             /\ call = NoCall
             /\ invocations = 0
    /\ (call # NoCall \/ phase = "serving")
          => /\ BOT_TOKEN # "" /\ CHAT_ID # ""
             /\ env.TELEGRAM_BOT_TOKEN = Str(BOT_TOKEN)
             /\ env.TELEGRAM_CHAT_ID = Str(CHAT_ID)

\* C2 witness: the token is set, the chat id is not, and the process exited.
C2_Witness ==
    /\ phase = "exited"
    /\ exitCode = 1
    /\ env.TELEGRAM_BOT_TOKEN = Str("tok")
    /\ EnvAbsentOrEmpty(env.TELEGRAM_CHAT_ID)

\* C3: a send_message invocation whose arguments violate the schema is
\* answered with exactly "Invalid input: " followed by the reasons joined
\* with ", ", with no "Error: " in front.
C3_InvalidInputText ==
    (SendReplied /\ ~SendMessageSchemaParse(CallInput).success) =>
        ReplyText = "Invalid input: "
                    \o Join(SendMessageSchemaParse(CallInput).issues, ", ")

\* The description the claim expects in a remote API error.
C4_Descriptions(response) ==
    IF IsString(response.description)
    THEN {response.description.v}
    ELSE {"HTTP " \o ToString(response.status), "Unknown error"}

\* C4: a send answered with a non-success HTTP status, or with a JSON body
\* whose ok is false, is replied to with exactly
\* "Error: Failed to send Telegram message: <description>".
C4_RemoteApiErrorText ==
    (/\ SendReplied
     /\ call.response.kind \in {"json", "html"}
     /\ (call.response.status \notin 200..299 \/ ~call.response.ok)) =>
        \E d \in C4_Descriptions(call.response) :
            ReplyText = "Error: Failed to send Telegram message: " \o d

\* What the claim takes for a valid input.
C5_Valid(input) ==
    /\ IsString(input.message)
    /\ Len(input.message.v) >= 1
    /\ Len(input.message.v) <= 4096
    /\ \/ input.parse_mode.t = "undefined"
       \/ /\ IsString(input.parse_mode)
          /\ input.parse_mode.v \in {"HTML", "Markdown", "MarkdownV2"}

HasIssue(result, reason) ==
    \E i \in 1..Len(result.issues) : result.issues[i] = reason

\* C5: validation succeeds exactly when message is a string of length 1 to
\* 4096 (the string's length) and parse_mode is absent or one of the three
\* literals; an empty message is refused with the reason that says "empty",
\* a message of 4097 or more with the reason that names 4096.
C5_ValidateExactly ==
    schemaResult.parsed =>
        /\ schemaResult.v.success <=> C5_Valid(schemaInput)
        /\ (IsString(schemaInput.message) /\ Len(schemaInput.message.v) = 0)
              => HasIssue(schemaResult.v, "Message cannot be empty")
        /\ (IsString(schemaInput.message) /\ Len(schemaInput.message.v) >= 4097)
              => HasIssue(schemaResult.v,
                          "Message exceeds Telegram's 4096 character limit")

\* C5 witness: a message of exactly 4096 code units with a parse mode passed.
C5_Witness ==
    /\ schemaResult.parsed
    /\ schemaResult.v.success
    /\ Len(schemaInput.message.v) = 4096
    /\ schemaInput.parse_mode = Str("MarkdownV2")

\* C6: every outbound request goes to .../bot<token>/sendMessage and
\* carries the configured chat id, the validated message unchanged as
\* text, and parse_mode exactly when the invocation supplied one.
C6_RequestAsSupplied ==
    SendReplied =>
        \A i \in 1..Len(call.requests) :
            /\ call.requests[i].url =
                  <<"https://api.telegram.org/bot" \o BOT_TOKEN \o "/sendMessage">>
            /\ call.requests[i].method = <<"POST">>
            /\ call.requests[i].chat_id = Str(<<CHAT_ID>>)
            /\ call.requests[i].text = Str(CallInput.message.v)
            /\ call.requests[i].parse_mode =
                  (IF CallInput.parse_mode.t = "undefined"
                   THEN Undefined
                   ELSE Str(<<CallInput.parse_mode.v>>))

\* C7: the number of outbound calls equals the number of send_message
\* invocations that passed validation: each of those makes exactly one
\* call, every other invocation makes none.
C7_OneCallPerValidSend ==
    /\ outboundCalls = validSends
    /\ call.stage = "replied" =>
          Len(call.requests) = (IF call.validated THEN 1 ELSE 0)

C8_SuccessTexts ==
    { "Message sent successfully to Telegram. Message ID: " \o id :
        id \in {"42", "7", "undefined"} }

\* C8: a remote response with ok = true and result.message_id = m is
\* answered with exactly "Message sent successfully to Telegram. Message
\* ID: <m>", and a reply of that form is given only to an invocation whose
\* own remote response had ok = true.
C8_SuccessReply ==
    /\ (/\ SendReplied
        /\ call.response.kind = "json"
        /\ call.response.ok
        /\ call.response.result.t = "object"
        /\ call.response.result.message_id.t = "number") =>
           ReplyText = "Message sent successfully to Telegram. Message ID: "
                       \o ToString(call.response.result.message_id.v)
    /\ (call.stage = "replied" /\ ReplyText \in C8_SuccessTexts) =>
           (call.response.kind = "json" /\ call.response.ok)

\* C9: a tool name other than send_message is answered with exactly
\* "Unknown tool: <name>", without an "Error: " prefix, without the
\* arguments being validated and without a remote call.
C9_UnknownTool ==
    (call.stage = "replied" /\ call.name # "send_message") =>
        /\ call.content = <<[type |-> "text", text |-> "Unknown tool: " \o call.name]>>
        /\ ~call.validated
        /\ call.requests = <<>>

\* C9 witness: delete_message was called with arguments the schema refuses.
C9_Witness ==
    /\ call.stage = "replied"
    /\ call.name = "delete_message"
    /\ ~SendMessageSchemaParse(CallInput).success
    /\ ReplyText = "Unknown tool: delete_message"

\* Number of Unicode code points of a string of UTF-16 code units.
CodePoints(s) ==
    Len(s) - Cardinality({i \in 1..(Len(s) - 1) : s[i] = "HS" /\ s[i + 1] = "LS"})

\* C10: the bound on message counts Unicode code points: with a valid
\* parse_mode, a message of n code points is accepted exactly when
\* 1 <= n <= 4096, astral characters included.
C10_CodePointBound ==
    (/\ schemaResult.parsed
     /\ IsString(schemaInput.message)
     /\ ParseModeIssues(schemaInput.parse_mode) = <<>>) =>
        (schemaResult.v.success <=>
            (/\ CodePoints(schemaInput.message.v) >= 1
             /\ CodePoints(schemaInput.message.v) <= 4096))

\* The reply the invocation would get on its own, from the credentials of
\* the environment, its tool name, its arguments and its remote response.
C11_OwnReply(c) ==
    LET r == processToolCall(c.name, ToolInput(c.arguments),
                             EnvOrEmpty(env.TELEGRAM_BOT_TOKEN),
                             EnvOrEmpty(env.TELEGRAM_CHAT_ID), c.response)
    IN [escaped |-> r.escaped, content |-> r.content]

====
